---- MODULE Spec2Model ----
(***************************************************************************)
(* Lagrange interpolating polynomial (tfpf/lagrange-interpolating-         *)
(* polynomial): the Polynomial class, its arithmetic operators and the     *)
(* interpolation routines, in the variants the repository holds.           *)
(*                                                                         *)
(* Numbers.  A C++ double is modelled as an exact rational (or one of the  *)
(* IEEE specials Inf, -Inf, NaN that a division by zero produces).  The    *)
(* rounding of the binary format is not modelled: every finite operation   *)
(* is exact.  The comparisons the code makes (|c| <= 1e-10, c == 0, the    *)
(* equality of two abscissas) are modelled exactly.  Numerators and        *)
(* denominators are unbounded naturals kept as little-endian sequences of  *)
(* base-10000 limbs, since the tolerance 1e-10 needs denominators beyond   *)
(* the range of the model checker's machine integers.                      *)
(***************************************************************************)
EXTENDS Integers, Sequences, FiniteSets, TLC

(***************************************************************************)
(* Unbounded naturals: <<>> is 0, limbs are 0..Base-1, least significant   *)
(* first, no most-significant zero limb.                                   *)
(***************************************************************************)
Base == 100 * 100

RECURSIVE NNorm(_)
NNorm(s) ==
    IF s = <<>> THEN <<>>
    ELSE IF s[Len(s)] = 0 THEN NNorm(SubSeq(s, 1, Len(s) - 1))
    ELSE s

RECURSIVE NFromInt(_)
NFromInt(k) ==
    IF k = 0 THEN <<>> ELSE <<k % Base>> \o NFromInt(k \div Base)

RECURSIVE NCmpAt(_, _, _)
NCmpAt(a, b, i) ==
    IF i = 0 THEN 0
    ELSE IF a[i] < b[i] THEN -1
    ELSE IF a[i] > b[i] THEN 1
    ELSE NCmpAt(a, b, i - 1)

NCmp(a, b) ==
    IF Len(a) < Len(b) THEN -1
    ELSE IF Len(a) > Len(b) THEN 1
    ELSE NCmpAt(a, b, Len(a))

NLeq(a, b) == NCmp(a, b) <= 0

RECURSIVE NAddC(_, _, _)
NAddC(a, b, c) ==
    IF a = <<>> /\ b = <<>> THEN (IF c = 0 THEN <<>> ELSE <<c>>)
    ELSE LET x == IF a = <<>> THEN 0 ELSE Head(a)
             y == IF b = <<>> THEN 0 ELSE Head(b)
             s == x + y + c
             ta == IF a = <<>> THEN <<>> ELSE Tail(a)
             tb == IF b = <<>> THEN <<>> ELSE Tail(b)
         IN  <<s % Base>> \o NAddC(ta, tb, s \div Base)

NAdd(a, b) == NAddC(a, b, 0)

\* a - b for a >= b
RECURSIVE NSubC(_, _, _)
NSubC(a, b, c) ==
    IF a = <<>> THEN <<>>
    ELSE LET y == IF b = <<>> THEN 0 ELSE Head(b)
             s == Head(a) - y - c
             tb == IF b = <<>> THEN <<>> ELSE Tail(b)
         IN  IF s < 0 THEN <<s + Base>> \o NSubC(Tail(a), tb, 1)
             ELSE <<s>> \o NSubC(Tail(a), tb, 0)

NSub(a, b) == NNorm(NSubC(a, b, 0))

RECURSIVE NMulLimbC(_, _, _)
NMulLimbC(a, m, c) ==
    IF a = <<>> THEN (IF c = 0 THEN <<>> ELSE <<c>>)
    ELSE LET s == Head(a) * m + c
         IN  <<s % Base>> \o NMulLimbC(Tail(a), m, s \div Base)

NMulLimb(a, m) == IF m = 0 THEN <<>> ELSE NMulLimbC(a, m, 0)

NShift(a) == IF a = <<>> THEN <<>> ELSE <<0>> \o a

RECURSIVE NMul(_, _)
NMul(a, b) ==
    IF a = <<>> \/ b = <<>> THEN <<>>
    ELSE NAdd(NMulLimb(a, Head(b)), NShift(NMul(a, Tail(b))))

\* the largest q in lo..hi with b*q <= r, given b*lo <= r
RECURSIVE NQDigit(_, _, _, _)
NQDigit(b, r, lo, hi) ==
    IF lo = hi THEN lo
    ELSE LET mid == (lo + hi + 1) \div 2
         IN  IF NLeq(NMulLimb(b, mid), r) THEN NQDigit(b, r, mid, hi)
             ELSE NQDigit(b, r, lo, mid - 1)

\* the leading part of r above the lowest k limbs, as a machine integer
NTop(r, k) ==
    IF Len(r) <= k THEN 0
    ELSE IF Len(r) = k + 1 THEN r[k + 1]
    ELSE r[k + 2] * Base + r[k + 1]

\* schoolbook long division, b # 0: <<quotient, remainder>> after the limbs
\* i..1 of a have been brought down to the remainder r < b; a divisor of
\* one limb gives its digit directly
RECURSIVE NDivStep(_, _, _, _, _)
NDivStep(a, b, i, q, r) ==
    IF i = 0 \/ r # r THEN <<q, r>>
    ELSE LET r1 == NNorm(<<a[i]>> \o r)
             rt == NTop(r1, Len(b) - 1)
             bt == b[Len(b)]
             hi0 == rt \div bt
             hi == IF hi0 > Base - 1 THEN Base - 1 ELSE hi0
             lo == IF Len(b) = 1 THEN hi ELSE rt \div (bt + 1)
             d == NQDigit(b, r1, lo, hi)
         IN  NDivStep(a, b, i - 1, <<d>> \o q, NSub(r1, NMulLimb(b, d)))

\* short division by the limb m # 0: the quotient limbs i..1 of a, rem < m
\* being the remainder brought down from the limbs above
RECURSIVE NDivLimbAt(_, _, _, _)
NDivLimbAt(a, m, i, rem) ==
    IF i = 0 THEN <<>>
    ELSE NDivLimbAt(a, m, i - 1, (rem * Base + a[i]) % m)
             \o <<(rem * Base + a[i]) \div m>>

NDivLimb(a, m) == NNorm(NDivLimbAt(a, m, Len(a), 0))

\* the quotient and the remainder of the division scaled by f
NUnscale(qr, f) ==
    <<NNorm(qr[1]), IF f = 1 THEN qr[2] ELSE NDivLimb(qr[2], f)>>

\* an divided by bn, whose leading limb is at least Base / 2 (or its only
\* limb): the leading Len(bn) - 1 limbs of an start the remainder
NDivModScaled(an, bn, f) ==
    NUnscale(NDivStep(an, bn, Len(an) - Len(bn) + 1, <<>>,
                      SubSeq(an, Len(an) - Len(bn) + 2, Len(an))), f)

\* <<a \div b, a % b>>, b # 0.  Both are scaled by f so that the leading
\* limb of the divisor is at least Base / 2 (the digit estimates are then
\* at most 2 off); the leading Len(b) - 1 limbs of a start the remainder.
NDivMod(a, b) ==
    IF NCmp(a, b) < 0 THEN <<<<>>, a>>
    ELSE IF Len(b) = 1 THEN NDivModScaled(a, b, 1)
    ELSE NDivModScaled(NMulLimb(a, Base \div (b[Len(b)] + 1)),
                       NMulLimb(b, Base \div (b[Len(b)] + 1)),
                       Base \div (b[Len(b)] + 1))

NDiv(a, b) == NDivMod(a, b)[1]
NMod(a, b) == NDivMod(a, b)[2]

RECURSIVE NGcd(_, _)
NGcd(a, b) == IF b = <<>> THEN a ELSE NGcd(b, NMod(a, b))

\* 10^e
NPow10(e) ==
    LET lead == CASE e % 4 = 0 -> 1 [] e % 4 = 1 -> 10
                  [] e % 4 = 2 -> 100 [] OTHER -> 1000
    IN  [i \in 1..(e \div 4) |-> 0] \o <<lead>>

NOne == <<1>>

(***************************************************************************)
(* double: [s, n, d] is the value s * n / d with s in {-1, 0, 1}, n and d  *)
(* coprime naturals; d = <<>> marks the IEEE specials (1/0 = Inf,          *)
(* -1/0 = -Inf, 0/0 = NaN).  The sign of a zero is not modelled.           *)
(***************************************************************************)
Zero == [s |-> 0, n |-> <<>>, d |-> NOne]
Inf == [s |-> 1, n |-> NOne, d |-> <<>>]
NegInf == [s |-> -1, n |-> NOne, d |-> <<>>]
NaN == [s |-> 0, n |-> <<>>, d |-> <<>>]

IsFinite(a) == a.d # <<>>
IsNaN(a) == a = NaN

\* the finite value s * n / d, g being the greatest common divisor of n, d
DReduced(s, n, d, g) ==
    IF g = NOne THEN [s |-> s, n |-> n, d |-> d]
    ELSE [s |-> s, n |-> NDiv(n, g), d |-> NDiv(d, g)]

\* the finite value s * n / d in lowest terms, d # 0
DMake(s, n, d) ==
    IF n = <<>> \/ s = 0 THEN Zero ELSE DReduced(s, n, d, NGcd(n, d))

Sgn(k) == IF k < 0 THEN -1 ELSE IF k > 0 THEN 1 ELSE 0
IAbs(k) == IF k < 0 THEN -k ELSE k

\* the literal a / b (b > 0) and the literal a * 10^-e
DFrac(a, b) == DMake(Sgn(a), NFromInt(IAbs(a)), NFromInt(b))
DInt(a) == DFrac(a, 1)
DDec(a, e) == DMake(Sgn(a), NFromInt(IAbs(a)), NPow10(e))

DNeg(a) == [a EXCEPT !.s = -a.s]
DAbs(a) == [a EXCEPT !.s = IAbs(a.s)]

\* sa * x / den + sb * y / den, c comparing x with y
DAddSigned(sa, x, sb, y, den, c) ==
    IF sa = sb THEN DMake(sa, NAdd(x, y), den)
    ELSE IF c = 0 THEN Zero
    ELSE IF c > 0 THEN DMake(sa, NSub(x, y), den)
    ELSE DMake(sb, NSub(y, x), den)

DAddScaled(sa, x, sb, y, den) == DAddSigned(sa, x, sb, y, den, NCmp(x, y))

DAdd(a, b) ==
    IF IsNaN(a) \/ IsNaN(b) THEN NaN
    ELSE IF ~IsFinite(a) THEN (IF ~IsFinite(b) /\ a.s # b.s THEN NaN ELSE a)
    ELSE IF ~IsFinite(b) THEN b
    ELSE IF a.s = 0 THEN b
    ELSE IF b.s = 0 THEN a
    ELSE IF a.d = b.d THEN DAddScaled(a.s, a.n, b.s, b.n, a.d)
    ELSE DAddScaled(a.s, NMul(a.n, b.d), b.s, NMul(b.n, a.d),
                    NMul(a.d, b.d))

DSub(a, b) == DAdd(a, DNeg(b))

DMul(a, b) ==
    IF IsNaN(a) \/ IsNaN(b) THEN NaN
    ELSE IF ~IsFinite(a) \/ ~IsFinite(b)
         THEN (IF a.s * b.s = 0 THEN NaN
               ELSE IF a.s * b.s > 0 THEN Inf ELSE NegInf)
    ELSE IF a.s = 0 \/ b.s = 0 THEN Zero
    ELSE DMake(a.s * b.s, NMul(a.n, b.n), NMul(a.d, b.d))

\* IEEE division: x / 0 is an infinity (NaN for 0 / 0), never a trap
DDiv(a, b) ==
    IF IsNaN(a) \/ IsNaN(b) THEN NaN
    ELSE IF ~IsFinite(a)
         THEN (IF ~IsFinite(b) THEN NaN
               ELSE IF b.s < 0 THEN DNeg(a) ELSE a)
    ELSE IF ~IsFinite(b) THEN Zero
    ELSE IF b.s = 0 THEN (IF a.s = 0 THEN NaN
                          ELSE IF a.s > 0 THEN Inf ELSE NegInf)
    ELSE IF a.s = 0 THEN Zero
    ELSE DMake(a.s * b.s, NMul(a.n, b.d), NMul(a.d, b.n))

\* a <= b (false when either is NaN)
DLeq(a, b) ==
    IF IsNaN(a) \/ IsNaN(b) THEN FALSE
    ELSE IF a = b THEN TRUE
    ELSE IF ~IsFinite(a) THEN a.s < 0
    ELSE IF ~IsFinite(b) THEN b.s > 0
    ELSE IF a.s # b.s THEN a.s < b.s
    ELSE IF a.s = 0 THEN TRUE
    ELSE LET c == NCmp(NMul(a.n, b.d), NMul(b.n, a.d))
         IN  IF a.s > 0 THEN c <= 0 ELSE c >= 0

DLess(a, b) == DLeq(a, b) /\ a # b

\* s * qr[1] / 10^6, one more when the remainder qr[2] of the division by d
\* is above half of d, or is half of d and qr[1] is odd
RoundedMicro(s, qr, d) ==
    IF NCmp(NAdd(qr[2], qr[2]), d) > 0
       \/ (NCmp(NAdd(qr[2], qr[2]), d) = 0
           /\ qr[1] # <<>> /\ qr[1][1] % 2 = 1)
    THEN DMake(s, NAdd(qr[1], NOne), NPow10(6))
    ELSE DMake(s, qr[1], NPow10(6))

\* std::to_string(double): the value printed by "%f", six digits after the
\* decimal point, the nearest such decimal (ties to even)
to_string(a) ==
    IF ~IsFinite(a) \/ a.s = 0 THEN a
    ELSE RoundedMicro(a.s, NDivMod(NMul(a.n, NPow10(6)), a.d), a.d)

(***************************************************************************)
(* Polynomial (src/lib/main.cc, class Polynomial : std::vector<double>):   *)
(* a sequence of doubles, index i (from 1) holding the coefficient of      *)
(* x^(i-1).                                                                *)
(***************************************************************************)
\* 1e-10
Tolerance == [s |-> 1, n |-> NOne, d |-> <<0, 0, 100>>]

\* RemoveSmall with the bound taken exclusive (|c| < 1e-10)
RemoveSmall_Exclusive(c) ==
    [i \in 1..Len(c) |->
        IF DLess(DAbs(c[i]), Tolerance) THEN Zero ELSE c[i]]

\* first loop of sanitise: coefficients with |c| <= 1e-10 become 0
RemoveSmall(c) ==
    [i \in 1..Len(c) |-> IF DLeq(DAbs(c[i]), Tolerance) THEN Zero ELSE c[i]]

\* second loop of sanitise: pop_back while the last coefficient == 0
RECURSIVE PopZeros(_)
PopZeros(c) ==
    IF c # <<>> /\ c[Len(c)] = Zero
    THEN PopZeros(SubSeq(c, 1, Len(c) - 1))
    ELSE c

sanitise(c) == PopZeros(RemoveSmall(c))

\* Polynomial(initializer_list) and Polynomial(vector)
Polynomial(list) == sanitise(list)

Min(a, b) == IF a < b THEN a ELSE b
Max(a, b) == IF a > b THEN a ELSE b

\* operator+= before its closing sanitise: the shared indices are summed,
\* the remaining coefficients of q are pushed back
PlusAssignLoops(p, q) ==
    [i \in 1..Max(Len(p), Len(q)) |->
        IF i <= Len(p) /\ i <= Len(q) THEN DAdd(p[i], q[i])
        ELSE IF i <= Len(p) THEN p[i] ELSE q[i]]

operatorPlusAssign(p, q) == sanitise(PlusAssignLoops(p, q))

operatorPlus(p, q) == operatorPlusAssign(p, q)

\* the loops of operator-= appending the tail of q unnegated
MinusAssignLoops_Unnegated(p, q) ==
    [i \in 1..Max(Len(p), Len(q)) |->
        IF i <= Len(p) /\ i <= Len(q) THEN DSub(p[i], q[i])
        ELSE IF i <= Len(p) THEN p[i] ELSE q[i]]

MinusAssignLoops(p, q) ==
    [i \in 1..Max(Len(p), Len(q)) |->
        IF i <= Len(p) /\ i <= Len(q) THEN DSub(p[i], q[i])
        ELSE IF i <= Len(p) THEN p[i] ELSE DNeg(q[i])]

operatorMinusAssign(p, q) == sanitise(MinusAssignLoops(p, q))

operatorMinus(p, q) == operatorMinusAssign(p, q)

\* ConvolveAt with the loop over k stopping one short (k < n)
RECURSIVE ConvolveAt_Short(_, _, _, _, _)
ConvolveAt_Short(p, q, n, k, acc) ==
    IF k >= n \/ acc # acc THEN acc
    ELSE IF k < Len(p) /\ n - k < Len(q)
         THEN ConvolveAt_Short(p, q, n, k + 1,
                               DAdd(acc, DMul(p[k + 1], q[n - k + 1])))
         ELSE ConvolveAt_Short(p, q, n, k + 1, acc)

\* the inner loop of operator*: result.back() += p[k] * q[n - k] for
\* k = 0..n (0-based) wherever both indices are in range
RECURSIVE ConvolveAt(_, _, _, _, _)
ConvolveAt(p, q, n, k, acc) ==
    IF k > n \/ acc # acc THEN acc
    ELSE IF k < Len(p) /\ n - k < Len(q)
         THEN ConvolveAt(p, q, n, k + 1,
                         DAdd(acc, DMul(p[k + 1], q[n - k + 1])))
         ELSE ConvolveAt(p, q, n, k + 1, acc)

\* operator* before its closing sanitise
Convolve(p, q) ==
    [m \in 1..(Len(p) + Len(q) - 1) |-> ConvolveAt(p, q, m - 1, 0, Zero)]

operatorTimes(p, q) ==
    IF p = <<>> \/ q = <<>> THEN <<>>
    ELSE sanitise(Convolve(p, q))

operatorTimesAssign(p, q) == operatorTimes(p, q)

\* operator/= before its closing sanitise
DivAssignLoop(p, d) == [i \in 1..Len(p) |-> DDiv(p[i], d)]

\* operator/= without its closing sanitise
operatorDivAssign_Unsanitised(p, d) == [i \in 1..Len(p) |-> DDiv(p[i], d)]

operatorDivAssign(p, d) == sanitise(DivAssignLoop(p, d))

operatorDiv(p, d) == operatorDivAssign(p, d)

\* Horner's recurrence taking the coefficients from the first to the last
RECURSIVE HornerFrom_Forward(_, _, _, _)
HornerFrom_Forward(c, x, i, acc) ==
    IF i = 0 \/ acc # acc THEN acc
    ELSE HornerFrom_Forward(c, x, i - 1,
                            DAdd(DMul(acc, x), c[Len(c) - i + 1]))

\* Polynomial::operator(): Horner from the last coefficient to the first
RECURSIVE HornerFrom(_, _, _, _)
HornerFrom(c, x, i, acc) ==
    IF i = 0 \/ acc # acc THEN acc
    ELSE HornerFrom(c, x, i - 1, DAdd(DMul(acc, x), c[i]))

operatorCall(p, x) == HornerFrom(p, x, Len(p), Zero)

One == [s |-> 1, n |-> NOne, d |-> NOne]

(***************************************************************************)
(* The outcome of a call: either a polynomial is returned, or an exception *)
(* is thrown and no polynomial exists.  error is the condition thrown      *)
(* (std::invalid_argument "At least two points are required for            *)
(* interpolation." is InsufficientPoints, std::invalid_argument about      *)
(* distinct / unique x-coordinates is DuplicateAbscissa); names holds the  *)
(* values the message of the exception prints; built counts the basis      *)
(* polynomials (`local') constructed before the call ended.                *)
(***************************************************************************)
Returned(c, b) ==
    [returned |-> TRUE, poly |-> c, error |-> "", names |-> <<>>,
     built |-> b]
Thrown(e, v) ==
    [returned |-> FALSE, poly |-> <<>>, error |-> e, names |-> v,
     built |-> 0]
\* rationalise has not been called
NoRat == [at |-> ""]

NoOutcome ==
    [returned |-> FALSE, poly |-> <<>>, error |-> "", names |-> <<>>,
     built |-> 0]

\* the scan of xcoords through unique_xcoords: the index of the first
\* element met a second time, 0 when there is none
RECURSIVE FirstRepeatFrom(_, _)
FirstRepeatFrom(x, i) ==
    IF i > Len(x) THEN 0
    ELSE IF \E j \in 1..(i - 1) : x[j] = x[i] THEN i
    ELSE FirstRepeatFrom(x, i + 1)

FirstRepeat(x) == FirstRepeatFrom(x, 1)

\* the inner loop over j of the constructor from points
RECURSIVE LocalLoop(_, _, _, _, _)
LocalLoop(xc, i, j, n, local) ==
    IF j > n \/ local # local THEN local
    ELSE IF i # j
         THEN LocalLoop(xc, i, j + 1, n,
                operatorTimesAssign(local,
                    operatorDiv(Polynomial(<<DNeg(xc[j]), One>>),
                                DAdd(DNeg(xc[j]), xc[i]))))
         ELSE LocalLoop(xc, i, j + 1, n, local)

\* the outer loop over i of the constructor from points
RECURSIVE PointsLoop(_, _, _, _, _)
PointsLoop(xc, yc, i, n, this) ==
    IF i > n \/ this # this THEN this
    ELSE PointsLoop(xc, yc, i + 1, n,
            operatorPlusAssign(this,
                LocalLoop(xc, i, 1, n, Polynomial(<<yc[i]>>))))

\* Polynomial::Polynomial(xcoords, ycoords)
Polynomial_points(xc, yc) ==
    LET num_of_points == Min(Len(xc), Len(yc))
        r == FirstRepeat(xc)
    IN  IF num_of_points <= 1 THEN Thrown("InsufficientPoints", <<>>)
        ELSE IF r # 0
             THEN Thrown("DuplicateAbscissa", <<to_string(xc[r])>>)
        ELSE Returned(sanitise(PointsLoop(xc, yc, 1, num_of_points, <<>>)),
                      num_of_points)

(***************************************************************************)
(* Polynomial.cpp: class Polynomial with a private coefficient vector and  *)
(* free operators that build a new Polynomial (the same code is in         *)
(* unnamed/part_002 and, for the operators, in pstl.cpp:255-440).          *)
(***************************************************************************)
sanitise_cpp(c) == PopZeros(RemoveSmall(c))

\* Polynomial(std::vector<double> const&)
Polynomial_cpp(coeffs) == sanitise_cpp(coeffs)

degree(c) == Len(c) - 1

\* Polynomial::evaluate
evaluate(c, coord) == HornerFrom(c, coord, Len(c), Zero)

\* operator+(Polynomial, Polynomial): three loops over i <= min degree,
\* i <= p.degree(), i <= q.degree()
operatorPlus_cpp(p, q) ==
    LET mn == Min(degree(p), degree(q))
        coeffs == [k \in 1..(Max(degree(p), degree(q)) + 1) |->
                    IF k - 1 <= mn THEN DAdd(p[k], q[k])
                    ELSE IF k - 1 <= degree(p) THEN p[k]
                    ELSE q[k]]
    IN  Polynomial_cpp(coeffs)

\* operator- whose third loop copies the coefficients of q unnegated
operatorMinus_cpp_Unnegated(p, q) ==
    Polynomial_cpp([k \in 1..(Max(degree(p), degree(q)) + 1) |->
                      IF k - 1 <= Min(degree(p), degree(q))
                      THEN DSub(p[k], q[k])
                      ELSE IF k - 1 <= degree(p) THEN p[k]
                      ELSE q[k]])

\* operator-(Polynomial, Polynomial): three loops over i <= min degree,
\* i <= p.degree(), i <= q.degree()
operatorMinus_cpp(p, q) ==
    Polynomial_cpp([k \in 1..(Max(degree(p), degree(q)) + 1) |->
                      IF k - 1 <= Min(degree(p), degree(q))
                      THEN DSub(p[k], q[k])
                      ELSE IF k - 1 <= degree(p) THEN p[k]
                      ELSE DNeg(q[k])])

\* the loop over k of operator* starting at k = 1
RECURSIVE TimesAt_cpp_FromOne(_, _, _, _, _)
TimesAt_cpp_FromOne(p, q, n, k, acc) ==
    IF k > n \/ acc # acc THEN acc
    ELSE IF k < 1 \/ k > degree(p) \/ n - k < 0 \/ n - k > degree(q)
         THEN TimesAt_cpp_FromOne(p, q, n, k + 1, acc)
         ELSE TimesAt_cpp_FromOne(p, q, n, k + 1,
                                  DAdd(acc, DMul(p[k + 1], q[n - k + 1])))

\* the loop over k of operator*(Polynomial, Polynomial)
RECURSIVE TimesAt_cpp(_, _, _, _, _)
TimesAt_cpp(p, q, n, k, acc) ==
    IF k > n \/ acc # acc THEN acc
    ELSE IF k < 0 \/ k > degree(p) \/ n - k < 0 \/ n - k > degree(q)
         THEN TimesAt_cpp(p, q, n, k + 1, acc)
         ELSE TimesAt_cpp(p, q, n, k + 1,
                          DAdd(acc, DMul(p[k + 1], q[n - k + 1])))

\* operator*(Polynomial, Polynomial): the vector is allocated with
\* p.degree() + q.degree() + 1 elements, which is -1 (converted to the
\* largest std::size_t, so the allocation throws std::length_error) when
\* both operands are empty
operatorTimes_cpp(p, q) ==
    LET size == degree(p) + degree(q) + 1
    IN  IF size < 0 THEN Thrown("length_error", <<>>)
        ELSE Returned(Polynomial_cpp(
                [m \in 1..size |-> TimesAt_cpp(p, q, m - 1, 0, Zero)]), 0)

\* operator/(Polynomial, double)
operatorDiv_cpp(p, f) ==
    Polynomial_cpp([i \in 1..Len(p) |-> DDiv(p[i], f)])

\* BasisLoop without the test k == j
RECURSIVE BasisLoop_NoSkip(_, _, _, _, _)
BasisLoop_NoSkip(x, j, k, num_points, local) ==
    IF k >= num_points \/ local # local THEN local
    ELSE BasisLoop_NoSkip(x, j, k + 1, num_points,
            operatorDiv_cpp(
                operatorTimes_cpp(local,
                    Polynomial_cpp(<<DNeg(x[k + 1]), One>>)).poly,
                DAdd(DNeg(x[k + 1]), x[j + 1])))

\* the loop over k of interpolate; Polynomial({-x[k], 1}) is never empty,
\* so the product is always allocated
RECURSIVE BasisLoop(_, _, _, _, _)
BasisLoop(x, j, k, num_points, local) ==
    IF k >= num_points \/ local # local THEN local
    ELSE IF k = j THEN BasisLoop(x, j, k + 1, num_points, local)
    ELSE BasisLoop(x, j, k + 1, num_points,
            operatorDiv_cpp(
                operatorTimes_cpp(local,
                    Polynomial_cpp(<<DNeg(x[k + 1]), One>>)).poly,
                DAdd(DNeg(x[k + 1]), x[j + 1])))

\* the loop over j of interpolate
RECURSIVE ResultLoop(_, _, _, _, _)
ResultLoop(x, y, j, num_points, result) ==
    IF j >= num_points \/ result # result THEN result
    ELSE ResultLoop(x, y, j + 1, num_points,
            operatorPlus_cpp(result,
                BasisLoop(x, j, 0, num_points, Polynomial_cpp(<<y[j + 1]>>))))

Range(f) == {f[i] : i \in DOMAIN f}

\* interpolate without the comparison of s.size() with x.size()
interpolate_Unchecked(x, y) ==
    IF Len(x) <= 1 \/ Len(y) <= 1 THEN Thrown("InsufficientPoints", <<>>)
    ELSE LET num_points == Min(Len(x), Len(y))
         IN  Returned(ResultLoop(x, y, 0, num_points, <<>>), num_points)

\* interpolate (Polynomial.cpp:559, the same in unnamed/part_002:550 and
\* unnamed/part_004:25)
interpolate(x, y) ==
    IF Len(x) <= 1 \/ Len(y) <= 1 THEN Thrown("InsufficientPoints", <<>>)
    ELSE IF Cardinality(Range(x)) # Len(x)
         THEN Thrown("DuplicateAbscissa", <<>>)
    ELSE LET num_points == Min(Len(x), Len(y))
         IN  Returned(ResultLoop(x, y, 0, num_points, <<>>), num_points)

\* interpolate of lib/sequence.cc:73: too few points give a default
\* constructed Polynomial, the abscissas are not compared
interpolate_silent(x, y) ==
    IF Len(x) <= 1 \/ Len(y) <= 1 THEN Returned(<<>>, 0)
    ELSE LET num_points == Min(Len(x), Len(y))
         IN  Returned(ResultLoop(x, y, 0, num_points, <<>>), num_points)

(***************************************************************************)
(* The program: the points read by main are handed to one of the           *)
(* interpolation routines.                                                 *)
(***************************************************************************)
\* pc: the position of the caller; variant: the routine it called last;
\* xcoords, ycoords: the coordinates handed to interpolation; outcome: what
\* the last call returned or threw; p, q: two Polynomial objects of the
\* caller; d: a scalar operand; raw: the coefficients the last operation
\* held before its closing sanitise; steps: the number of operations
\* applied to p and q
VARIABLES pc, variant, xcoords, ycoords, outcome, p, q, d, raw, steps,
          value, rat

vars ==
    <<pc, variant, xcoords, ycoords, outcome, p, q, d, raw, steps, value, rat>>

objects == <<p, q, d, raw, steps>>

\* what evaluate and rationalise work on
scalars == <<value, rat>>

MaxPoints == 2
MaxExtra == 1

XValues == {Zero, One, DInt(100000000)}
YValues == {Zero, DDec(2, 3)}

SeqsUpTo(S, n) == UNION {[1..k -> S] : k \in 0..n}

\* the sequence 1, 2, 3, 4, 98756 at positions 1..5 and the sequence
\* 42, 43, 44, 45, 46, 98756 at positions 1..6 of README.md
Ints(s) == [i \in 1..Len(s) |-> DInt(s[i])]
ReadmeX5 == Ints(<<1, 2, 3, 4, 5>>)
ReadmeY5 == Ints(<<1, 2, 3, 4, 98756>>)
ReadmeX6 == Ints(<<1, 2, 3, 4, 5, 6>>)
ReadmeY6 == Ints(<<42, 43, 44, 45, 46, 98756>>)

\* the points (1,5) and (1,9), which share their abscissa
SharedX == Ints(<<1, 1>>)
SharedY == Ints(<<5, 9>>)

\* the README sequences, the two points sharing an abscissa, the three
\* points (0, 2e-3), (1, 0), (1e8, 0), and n points followed by at most
\* MaxExtra further coordinates in one of the two sequences
Inputs ==
    {<<ReadmeX5, ReadmeY5>>, <<ReadmeX6, ReadmeY6>>, <<SharedX, SharedY>>,
     <<<<Zero, One, DInt(100000000)>>, <<DDec(2, 3), Zero, Zero>>>>}
    \cup UNION {
        { <<xs \o ex, ys>> : xs \in [1..n -> XValues],
                             ys \in [1..n -> YValues],
                             ex \in SeqsUpTo(XValues, MaxExtra) }
        \cup
        { <<xs, ys \o ey>> : xs \in [1..n -> XValues],
                             ys \in [1..n -> YValues],
                             ey \in SeqsUpTo(YValues, MaxExtra) }
        : n \in 0..MaxPoints }

Init ==
    /\ pc = "main"
    /\ variant = ""
    /\ \E in \in Inputs : xcoords = in[1] /\ ycoords = in[2]
    /\ outcome = NoOutcome
    /\ p = <<>> /\ q = <<>> /\ d = Zero /\ raw = <<>> /\ steps = 0
    /\ value = Zero /\ rat = NoRat

\* lib/sequence.cc:37, Polynomial p(xcoords, ycoords)
CallPolynomial ==
    /\ pc = "main"
    /\ pc' = "done"
    /\ variant' = "Polynomial"
    /\ outcome' = Polynomial_points(xcoords, ycoords)
    /\ UNCHANGED <<xcoords, ycoords, objects>>
    /\ UNCHANGED scalars

\* main.cpp:51, Polynomial poly = interpolate(xcoords, ycoords)
CallInterpolate ==
    /\ pc = "main"
    /\ pc' = "done"
    /\ variant' = "interpolate"
    /\ outcome' = interpolate(xcoords, ycoords)
    /\ UNCHANGED <<xcoords, ycoords, objects>>
    /\ UNCHANGED scalars

\* lib/sequence.cc:146, Polynomial c = interpolate(x, y)
CallInterpolateSilent ==
    /\ pc = "main"
    /\ pc' = "done"
    /\ variant' = "interpolate_silent"
    /\ outcome' = interpolate_silent(xcoords, ycoords)
    /\ UNCHANGED <<xcoords, ycoords, objects>>
    /\ UNCHANGED scalars

Next == CallPolynomial \/ CallInterpolate \/ CallInterpolateSilent

Spec == Init /\ [][Next]_vars

(***************************************************************************)
(* Properties of interpolation.                                            *)
(***************************************************************************)
NumPoints == Min(Len(xcoords), Len(ycoords))

\* the points are the overlapping prefixes of the two sequences
DistinctPoints ==
    \A i, j \in 1..NumPoints : i # j => xcoords[i] # xcoords[j]

SharedAbscissa ==
    \E i, j \in 1..NumPoints : i # j /\ xcoords[i] = xcoords[j]

\* the evaluation member of the class that was called
Eval(c, x) ==
    IF variant = "Polynomial" THEN operatorCall(c, x) ELSE evaluate(c, x)

\* |a - b| <= 10^-e
Within(a, b, e) == DLeq(DAbs(DSub(a, b)), DDec(1, e))

\* C1: for n >= 2 points with pairwise distinct abscissas the returned
\* polynomial evaluates at every x_i to y_i (within the tolerance 1e-6 of
\* the specification)
C1_RoundTrip ==
    (pc = "done" /\ outcome.returned /\ NumPoints >= 2 /\ DistinctPoints)
    => \A i \in 1..NumPoints :
           Within(Eval(outcome.poly, xcoords[i]), ycoords[i], 6)

\* The interpolating polynomial of the points by the Lagrange formula in
\* exact arithmetic, nothing flushed or trimmed: the sum over i of
\* y_i * prod_{j # i} (X - x_j) / (x_i - x_j), as n coefficients.
RECURSIVE LagrangeBasis(_, _, _, _, _)
LagrangeBasis(x, i, j, n, acc) ==
    IF j > n THEN acc
    ELSE IF j = i THEN LagrangeBasis(x, i, j + 1, n, acc)
    ELSE LagrangeBasis(x, i, j + 1, n,
            LET prod == Convolve(acc, <<DNeg(x[j]), One>>)
                den == DSub(x[i], x[j])
            IN  [k \in 1..Len(prod) |-> DDiv(prod[k], den)])

RECURSIVE LagrangeSum(_, _, _, _, _)
LagrangeSum(x, y, i, n, acc) ==
    IF i > n THEN acc
    ELSE LET b == LagrangeBasis(x, i, 1, n, <<y[i]>>)
         IN  LagrangeSum(x, y, i + 1, n,
                [k \in 1..n |-> DAdd(acc[k], b[k])])

Lagrange(x, y, n) == LagrangeSum(x, y, 1, n, [k \in 1..n |-> Zero])

\* the canonical coefficient sequence of a polynomial
Canonical(g) == PopZeros(RemoveSmall(g))

\* C2: when the points lie on a polynomial g of degree < n - 1, the result
\* is exactly the canonical coefficient sequence of g
C2_MinimalDegree ==
    (pc = "done" /\ outcome.returned /\ NumPoints >= 2 /\ DistinctPoints)
    => LET g == Lagrange(xcoords, ycoords, NumPoints)
       IN  g[NumPoints] = Zero => outcome.poly = Canonical(g)

\* C3: a returned polynomial has at most n = min(|x|, |y|) coefficients
\* (degree <= n - 1)
C3_DegreeBound ==
    (pc = "done" /\ outcome.returned) => Len(outcome.poly) <= NumPoints

C3_Witness ==
    /\ pc = "done" /\ outcome.returned
    /\ NumPoints >= 2 /\ Len(outcome.poly) = NumPoints

\* the coefficients README.md lists, constant term first
ReadmeCoefficients5 ==
    <<DInt(98751), DDec(-20573025, 2), DDec(144011875, 3),
      DDec(-4114625, 2), DDec(4114625, 3)>>
ReadmeCoefficients6 ==
    <<DInt(-98668), DDec(22538655, 2), DDec(-185079375, 3),
      DDec(69918875, 3), DDec(-12338625, 3), DDec(822575, 3)>>

C5_DuplicateAbscissa ==
    (pc = "done" /\ SharedAbscissa) =>
        /\ ~outcome.returned
        /\ outcome.error = "DuplicateAbscissa"
        /\ outcome.built = 0
        /\ \E i, j \in 1..NumPoints :
              /\ i # j /\ xcoords[i] = xcoords[j]
              /\ outcome.names = <<to_string(xcoords[i])>>

\* C6: fewer than two points make interpolation fail with
\* InsufficientPoints; no polynomial, in particular no empty one, is
\* returned
C6_InsufficientPoints ==
    (pc = "done" /\ NumPoints < 2) =>
        (~outcome.returned /\ outcome.error = "InsufficientPoints")

\* the routine that was called
Routine(x, y) ==
    IF variant = "Polynomial" THEN Polynomial_points(x, y)
    ELSE IF variant = "interpolate" THEN interpolate(x, y)
    ELSE interpolate_silent(x, y)

\* C7: the outcome on (x, y) is the outcome on the two prefixes of length
\* min(|x|, |y|)
C7_PrefixOnly ==
    pc = "done" =>
        outcome = Routine(SubSeq(xcoords, 1, NumPoints),
                          SubSeq(ycoords, 1, NumPoints))

(***************************************************************************)
(* A caller of the class of lib/main.cc: it constructs polynomials and     *)
(* combines them with the operators, dividing by nonzero scalars only.     *)
(***************************************************************************)
MaxLen == 2
MaxSteps == 2

CoefValues == {Zero, One, DInt(-1), DDec(1, 10), DDec(1, 5)}
Divisors == {DInt(100000), DDec(-1, 5)}
ArithPoints ==
    {<<xs, ys>> : xs \in {<<Zero, One>>, <<One, One>>},
                  ys \in [1..2 -> {One, DDec(1, 10)}]}

InitArith ==
    /\ pc = "arith"
    /\ variant = ""
    /\ xcoords = <<>> /\ ycoords = <<>>
    /\ outcome = NoOutcome
    /\ p = <<>> /\ q = <<>> /\ d = Zero /\ raw = <<>> /\ steps = 0
    /\ value = Zero /\ rat = NoRat

Step(name) ==
    /\ pc = "arith"
    /\ steps < MaxSteps
    /\ steps' = steps + 1
    /\ variant' = name
    /\ UNCHANGED <<pc, xcoords, ycoords>>
    /\ UNCHANGED scalars

\* Polynomial p = {...} and Polynomial p(vector)
ConstructFromList ==
    /\ Step("Polynomial")
    /\ \E list \in SeqsUpTo(CoefValues, MaxLen) :
          /\ raw' = list
          /\ p' = Polynomial(list)
    /\ outcome' = Returned(p', 0)
    /\ UNCHANGED <<q, d>>

\* Polynomial p(xcoords, ycoords); nothing is constructed when it throws
ConstructFromPoints ==
    /\ Step("Polynomial_points")
    /\ \E in \in ArithPoints :
          /\ outcome' = Polynomial_points(in[1], in[2])
          /\ p' = IF outcome'.returned THEN outcome'.poly ELSE p
          /\ raw' = p'
    /\ UNCHANGED <<q, d>>

\* Polynomial q = p (the copy that operator+, operator- and operator/ make)
Copy ==
    /\ Step("copy")
    /\ q' = p
    /\ raw' = p
    /\ outcome' = Returned(q', 0)
    /\ UNCHANGED <<p, d>>

\* p += q
PlusAssign ==
    /\ Step("operator+=")
    /\ raw' = PlusAssignLoops(p, q)
    /\ p' = operatorPlusAssign(p, q)
    /\ outcome' = Returned(p', 0)
    /\ UNCHANGED <<q, d>>

\* q = p + q
Plus ==
    /\ Step("operator+")
    /\ raw' = PlusAssignLoops(p, q)
    /\ q' = operatorPlus(p, q)
    /\ outcome' = Returned(q', 0)
    /\ UNCHANGED <<p, d>>

\* p -= q
MinusAssign ==
    /\ Step("operator-=")
    /\ raw' = MinusAssignLoops(p, q)
    /\ p' = operatorMinusAssign(p, q)
    /\ outcome' = Returned(p', 0)
    /\ UNCHANGED <<q, d>>

\* q = p - q
Minus ==
    /\ Step("operator-")
    /\ raw' = MinusAssignLoops(p, q)
    /\ q' = operatorMinus(p, q)
    /\ outcome' = Returned(q', 0)
    /\ UNCHANGED <<p, d>>

\* p *= q
TimesAssign ==
    /\ Step("operator*=")
    /\ raw' = IF p = <<>> \/ q = <<>> THEN <<>> ELSE Convolve(p, q)
    /\ p' = operatorTimesAssign(p, q)
    /\ outcome' = Returned(p', 0)
    /\ UNCHANGED <<q, d>>

\* q = p * q
Times ==
    /\ Step("operator*")
    /\ raw' = IF p = <<>> \/ q = <<>> THEN <<>> ELSE Convolve(p, q)
    /\ q' = operatorTimes(p, q)
    /\ outcome' = Returned(q', 0)
    /\ UNCHANGED <<p, d>>

\* p /= d
DivAssign ==
    /\ Step("operator/=")
    /\ \E dv \in Divisors :
          /\ d' = dv
          /\ raw' = DivAssignLoop(p, dv)
          /\ p' = operatorDivAssign(p, dv)
    /\ outcome' = Returned(p', 0)
    /\ UNCHANGED q

\* q = p / d
Div ==
    /\ Step("operator/")
    /\ \E dv \in Divisors :
          /\ d' = dv
          /\ raw' = DivAssignLoop(p, dv)
          /\ q' = operatorDiv(p, dv)
    /\ outcome' = Returned(q', 0)
    /\ UNCHANGED p

NextArith ==
    \/ ConstructFromList \/ ConstructFromPoints \/ Copy
    \/ PlusAssign \/ Plus \/ MinusAssign \/ Minus
    \/ TimesAssign \/ Times \/ DivAssign \/ Div

SpecArith == InitArith /\ [][NextArith]_vars

\* c is empty or ends in a coefficient of magnitude > 1e-10, and holds no
\* coefficient of magnitude in (0, 1e-10]
IsCanonical(c) ==
    /\ c = <<>> \/ DLess(Tolerance, DAbs(c[Len(c)]))
    /\ \A i \in 1..Len(c) :
          ~(DLess(Zero, DAbs(c[i])) /\ DLeq(DAbs(c[i]), Tolerance))

Dividends == {Polynomial(list) : list \in SeqsUpTo(CoefValues, MaxLen + 1)}

InitDiv ==
    /\ pc = "divide"
    /\ variant = ""
    /\ xcoords = <<>> /\ ycoords = <<>>
    /\ outcome = NoOutcome
    /\ p \in Dividends
    /\ q = p
    /\ d \in Divisors \cup {Zero}
    /\ raw = <<>> /\ steps = 0
    /\ value = Zero /\ rat = NoRat

\* Polynomial r = p / d (lib/main.cc:349)
CallOperatorDiv ==
    /\ pc = "divide"
    /\ pc' = "done"
    /\ variant' = "operator/"
    /\ raw' = DivAssignLoop(p, d)
    /\ outcome' = Returned(operatorDiv(p, d), 0)
    /\ UNCHANGED <<xcoords, ycoords, p, q, d, steps>>
    /\ UNCHANGED scalars

\* p /= d (lib/main.cc:332)
CallOperatorDivAssign ==
    /\ pc = "divide"
    /\ pc' = "done"
    /\ variant' = "operator/="
    /\ raw' = DivAssignLoop(p, d)
    /\ p' = operatorDivAssign(p, d)
    /\ outcome' = Returned(p', 0)
    /\ UNCHANGED <<xcoords, ycoords, q, d, steps>>
    /\ UNCHANGED scalars

\* Polynomial r = p / f (Polynomial.cpp:440)
CallOperatorDiv_cpp ==
    /\ pc = "divide"
    /\ pc' = "done"
    /\ variant' = "operator/_cpp"
    /\ raw' = [i \in 1..Len(p) |-> DDiv(p[i], d)]
    /\ outcome' = Returned(operatorDiv_cpp(p, d), 0)
    /\ UNCHANGED <<xcoords, ycoords, p, q, d, steps>>
    /\ UNCHANGED scalars

NextDiv == CallOperatorDiv \/ CallOperatorDivAssign \/ CallOperatorDiv_cpp

SpecDiv == InitDiv /\ [][NextDiv]_vars

\* C8: dividing by the scalar 0 fails with DivisionByZero, produces no
\* polynomial and leaves the coefficients of the dividend unchanged
C8_DivisionByZero ==
    (pc = "done" /\ d = Zero) =>
        /\ ~outcome.returned
        /\ outcome.error = "DivisionByZero"
        /\ p = q

(***************************************************************************)
(* sanitise applied to an arbitrary coefficient vector; q keeps the vector *)
(* as it was before the call.                                              *)
(***************************************************************************)
RawValues == CoefValues \cup {DDec(1, 17), DDec(-1, 10)}

\* the vector of the comment of Polynomial::sanitise,
\* [3.3, 1.97, 8, 0, 4.2, 0, 1e-17, 0], and what it has to become
CommentVector ==
    <<DDec(33, 1), DDec(197, 2), DInt(8), Zero, DDec(42, 1), Zero,
      DDec(1, 17), Zero>>
CommentSanitised == <<DDec(33, 1), DDec(197, 2), DInt(8), Zero, DDec(42, 1)>>

InitSanitise ==
    /\ pc = "sanitise"
    /\ variant = ""
    /\ xcoords = <<>> /\ ycoords = <<>>
    /\ outcome = NoOutcome
    /\ p \in SeqsUpTo(RawValues, MaxLen + 1) \cup {CommentVector}
    /\ q = p
    /\ d = Zero /\ raw = <<>> /\ steps = 0
    /\ value = Zero /\ rat = NoRat

\* Polynomial::sanitise of Polynomial.cpp:115
CallSanitise_cpp ==
    /\ pc = "sanitise"
    /\ pc' = "done"
    /\ variant' = "sanitise_cpp"
    /\ p' = sanitise_cpp(p)
    /\ UNCHANGED <<xcoords, ycoords, outcome, q, d, raw, steps>>
    /\ UNCHANGED scalars

\* Polynomial::sanitise of lib/main.cc:160
CallSanitise ==
    /\ pc = "sanitise"
    /\ pc' = "done"
    /\ variant' = "sanitise"
    /\ p' = sanitise(p)
    /\ UNCHANGED <<xcoords, ycoords, outcome, q, d, raw, steps>>
    /\ UNCHANGED scalars

NextSanitise == CallSanitise_cpp \/ CallSanitise

SpecSanitise == InitSanitise /\ [][NextSanitise]_vars

\* c with every coefficient of magnitude <= 1e-10 replaced by 0
Flattened(c) ==
    [i \in 1..Len(c) |->
        IF DLeq(c[i], Tolerance) /\ DLeq(DNeg(Tolerance), c[i])
        THEN Zero ELSE c[i]]

\* the index of the last nonzero coefficient of c, 0 when there is none
LastNonzero(c) ==
    IF \A i \in 1..Len(c) : c[i] = Zero THEN 0
    ELSE CHOOSE k \in 1..Len(c) :
            c[k] # Zero /\ \A i \in (k + 1)..Len(c) : c[i] = Zero

\* C10: sanitise replaces the coefficients of magnitude <= 1e-10 by 0 and
\* removes the trailing zeros only; the vector of the comment loses its
\* last three elements and a vector of near-zero values becomes empty
C10_Sanitise ==
    pc = "done" =>
        /\ p = SubSeq(Flattened(q), 1, LastNonzero(Flattened(q)))
        /\ q = CommentVector => p = CommentSanitised
        /\ (\A i \in 1..Len(q) : DLeq(DAbs(q[i]), Tolerance)) => p = <<>>

C10_Witness ==
    /\ pc = "done" /\ variant = "sanitise_cpp"
    /\ q = CommentVector /\ p = CommentSanitised
(***************************************************************************)
(* The operators and the evaluation as functions of their operands: two    *)
(* polynomials p and q, or a polynomial p and an argument d, are chosen    *)
(* and one call is made.  The coefficients are 1e-5, 2e-10 and -1.5e-10:   *)
(* each is above the tolerance, the square of the first and the sum of the *)
(* other two are not.                                                      *)
(***************************************************************************)
AlgPolys ==
    {Polynomial(c) :
        c \in SeqsUpTo({Zero, DDec(1, 5), DDec(2, 10), DDec(-15, 11)}, MaxLen)}

InitAlgebra ==
    /\ \/ pc = "operands" /\ p \in AlgPolys /\ q \in AlgPolys /\ d = Zero
       \/ pc = "argument" /\ p \in AlgPolys /\ q = <<>>
          /\ d \in {Zero, DInt(2), DDec(-5, 1), DDec(-2, 10), DDec(5, 11)}
    /\ variant = ""
    /\ xcoords = <<>> /\ ycoords = <<>>
    /\ outcome = NoOutcome
    /\ raw = <<>> /\ steps = 0
    /\ value = Zero /\ rat = NoRat

\* lib/main.cc:300, p * q; raw is result before result.sanitise()
CallTimes ==
    /\ pc = "operands"
    /\ pc' = "done"
    /\ variant' = "operator*"
    /\ raw' = IF p = <<>> \/ q = <<>> THEN <<>> ELSE Convolve(p, q)
    /\ outcome' = Returned(operatorTimes(p, q), 0)
    /\ UNCHANGED <<xcoords, ycoords, p, q, d, steps, scalars>>

\* Polynomial.cpp:411, p * q; raw is coeffs before Polynomial(coeffs, name)
CallTimes_cpp ==
    /\ pc = "operands"
    /\ pc' = "done"
    /\ variant' = "operator*_cpp"
    /\ raw' = [m \in 1..(degree(p) + degree(q) + 1) |->
                 TimesAt_cpp(p, q, m - 1, 0, Zero)]
    /\ outcome' = operatorTimes_cpp(p, q)
    /\ UNCHANGED <<xcoords, ycoords, p, q, d, steps, scalars>>

\* lib/main.cc:236 and 274, (p + q) - q; raw is the sum
CallPlusMinus ==
    /\ pc = "operands"
    /\ pc' = "done"
    /\ variant' = "operator+-"
    /\ raw' = operatorPlus(p, q)
    /\ outcome' = Returned(operatorMinus(raw', q), 0)
    /\ UNCHANGED <<xcoords, ycoords, p, q, d, steps, scalars>>

\* Polynomial.cpp:295 and 351, (p + q) - q; raw is the sum
CallPlusMinus_cpp ==
    /\ pc = "operands"
    /\ pc' = "done"
    /\ variant' = "operator+-_cpp"
    /\ raw' = operatorPlus_cpp(p, q)
    /\ outcome' = Returned(operatorMinus_cpp(raw', q), 0)
    /\ UNCHANGED <<xcoords, ycoords, p, q, d, steps, scalars>>

\* p + q of lib/main.cc:236 and of Polynomial.cpp:295; raw is the vector
\* before it is sanitised
CallPlus ==
    /\ pc = "operands"
    /\ pc' = "done"
    /\ \E v \in {"operator+", "operator+_cpp"} :
          /\ variant' = v
          /\ raw' = IF v = "operator+" THEN PlusAssignLoops(p, q)
                    ELSE [k \in 1..(Max(degree(p), degree(q)) + 1) |->
                            IF k - 1 <= Min(degree(p), degree(q))
                            THEN DAdd(p[k], q[k])
                            ELSE IF k - 1 <= degree(p) THEN p[k]
                            ELSE q[k]]
          /\ outcome' = IF v = "operator+"
                        THEN Returned(operatorPlus(p, q), 0)
                        ELSE Returned(operatorPlus_cpp(p, q), 0)
    /\ UNCHANGED <<xcoords, ycoords, p, q, d, steps, scalars>>

\* p - q of lib/main.cc:274 and of Polynomial.cpp:351; raw is the vector
\* before it is sanitised
CallMinus ==
    /\ pc = "operands"
    /\ pc' = "done"
    /\ \E v \in {"operator-", "operator-_cpp"} :
          /\ variant' = v
          /\ raw' = IF v = "operator-" THEN MinusAssignLoops(p, q)
                    ELSE [k \in 1..(Max(degree(p), degree(q)) + 1) |->
                            IF k - 1 <= Min(degree(p), degree(q))
                            THEN DSub(p[k], q[k])
                            ELSE IF k - 1 <= degree(p) THEN p[k]
                            ELSE DNeg(q[k])]
          /\ outcome' = IF v = "operator-"
                        THEN Returned(operatorMinus(p, q), 0)
                        ELSE Returned(operatorMinus_cpp(p, q), 0)
    /\ UNCHANGED <<xcoords, ycoords, p, q, d, steps, scalars>>

\* p + d without the push_back for the empty polynomial
CallPlusScalar_NoPush ==
    /\ pc = "argument"
    /\ pc' = "done"
    /\ \E v \in {"operator+f", "f+operator"} : variant' = v
    /\ raw' = IF p = <<>> THEN <<>> ELSE [p EXCEPT ![1] = DAdd(p[1], d)]
    /\ outcome' = Returned(Polynomial_cpp(raw'), 0)
    /\ UNCHANGED <<xcoords, ycoords, p, q, d, steps, scalars>>

\* Polynomial.cpp:267 and 281, p + d and d + p: a copy of the coefficients,
\* push_back(0) if there is none, coeffs[0] += f, Polynomial(coeffs, name);
\* raw is the vector passed to the constructor
CallPlusScalar ==
    /\ pc = "argument"
    /\ pc' = "done"
    /\ \E v \in {"operator+f", "f+operator"} : variant' = v
    /\ raw' = IF degree(p) = -1 THEN <<DAdd(Zero, d)>>
              ELSE [p EXCEPT ![1] = DAdd(p[1], d)]
    /\ outcome' = Returned(Polynomial_cpp(raw'), 0)
    /\ UNCHANGED <<xcoords, ycoords, p, q, d, steps, scalars>>

\* lib/main.cc:363, p(d)
CallOperatorCall ==
    /\ pc = "argument"
    /\ pc' = "done"
    /\ variant' = "operator()"
    /\ value' = operatorCall(p, d)
    /\ UNCHANGED <<xcoords, ycoords, outcome, objects, rat>>

\* Polynomial.cpp:223, p.evaluate(d)
CallEvaluate ==
    /\ pc = "argument"
    /\ pc' = "done"
    /\ variant' = "evaluate"
    /\ value' = evaluate(p, d)
    /\ UNCHANGED <<xcoords, ycoords, outcome, objects, rat>>

NextAlgebra ==
    \/ CallTimes \/ CallTimes_cpp \/ CallPlusMinus \/ CallPlusMinus_cpp
    \/ CallPlus \/ CallMinus \/ CallPlusScalar
    \/ CallOperatorCall \/ CallEvaluate

SpecAlgebra == InitAlgebra /\ [][NextAlgebra]_vars

\* C11: the product of two canonical polynomials, neither the zero
\* polynomial, has degree degree(p) + degree(q)
C11_ProductDegree ==
    (/\ pc = "done"
     /\ variant \in {"operator*", "operator*_cpp"}
     /\ p # <<>> /\ q # <<>>)
        => (/\ outcome.returned
            /\ degree(outcome.poly) = degree(p) + degree(q))

RECURSIVE Power(_, _)
Power(x, k) == IF k = 0 THEN One ELSE DMul(x, Power(x, k - 1))

RECURSIVE PowerSum(_, _, _)
PowerSum(c, x, n) ==
    IF n = 0 THEN Zero
    ELSE DAdd(PowerSum(c, x, n - 1), DMul(c[n], Power(x, n - 1)))

\* C13: evaluate and operator() return the sum of coeffs[i] * x^i, and 0
\* for the empty polynomial whatever x is
C13_Evaluate ==
    (pc = "done" /\ variant \in {"operator()", "evaluate"})
        => (/\ value = PowerSum(p, d, Len(p))
            /\ p = <<>> => value = Zero)

\* a polynomial of two coefficients was evaluated at an argument other
\* than 0 and the value is not 0
C13_Witness ==
    /\ pc = "done" /\ variant = "evaluate"
    /\ Len(p) = 2 /\ p[1] # Zero /\ p[1] # p[2]
    /\ d # Zero /\ value # Zero

\* C20: a product with the zero polynomial as an operand, both operands
\* empty included, returns the empty coefficient sequence
C20_TimesZero ==
    (/\ pc = "done"
     /\ variant \in {"operator*", "operator*_cpp"}
     /\ (p = <<>> \/ q = <<>>))
        => (outcome.returned /\ outcome.poly = <<>>)

(***************************************************************************)
(* rationalise.  The integers of the function (n, d, g, the convergents    *)
(* p0/q0 and p1/q1, a, q2, k) are naturals of the limb representation: the  *)
(* sign of the number is split off before they are computed.  The string   *)
(* returned is a sequence of characters.  One call is a sequence of steps: *)
(* the entry up to the first return or to the loop, one step per           *)
(* iteration of the loop, and the selection between the two bounds.        *)
(***************************************************************************)
MaxDenominator == 3

DigitChars == <<"0", "1", "2", "3", "4", "5", "6", "7", "8", "9">>

\* std::to_string of an int below Base
RECURSIVE IntDigits(_)
IntDigits(k) ==
    IF k < 10 THEN <<DigitChars[k + 1]>>
    ELSE IntDigits(k \div 10) \o <<DigitChars[(k % 10) + 1]>>

\* the four digits of each limb that is not the leading one
RECURSIVE LowerDigits(_, _)
LowerDigits(n, i) ==
    IF i = 0 THEN <<>>
    ELSE <<DigitChars[(n[i] \div 1000) + 1],
           DigitChars[((n[i] \div 100) % 10) + 1],
           DigitChars[((n[i] \div 10) % 10) + 1],
           DigitChars[(n[i] % 10) + 1]>> \o LowerDigits(n, i - 1)

\* std::to_string of a nonnegative integer
to_string_int(n) ==
    IF n = <<>> THEN <<"0">>
    ELSE IntDigits(n[Len(n)]) \o LowerDigits(n, Len(n) - 1)

\* d = 1e12 in unnamed/part_002:454 ("rationalise"), which lib/main.cc:383
\* follows, and d = 1e15 in Polynomial.cpp:469 ("rationalise_cpp")
Scale(v) == IF v = "rationalise_cpp" THEN NPow10(15) ELSE NPow10(12)

\* a gcd that is always 1
my_gcd_Unit(m, n) == NOne

\* my_gcd, std::gcd
my_gcd(m, n) == NGcd(m, n)

\* the sign string and the two forms of the string returned
SignChars(sign) == IF sign < 0 THEN <<"-">> ELSE <<>>
Rendered(v, sign, n, d_) ==
    IF v # "rationalise_cpp" /\ d_ = NOne
    THEN SignChars(sign) \o to_string_int(n)
    ELSE SignChars(sign) \o to_string_int(n) \o <<"/">> \o to_string_int(d_)

\* the locals of a call: where it is, the bound, the sign, n and d, the two
\* convergents, and after the return the fraction chosen and the string
Entered(m) ==
    [at |-> "entry", max_denominator |-> m, sign |-> 0,
     n |-> <<>>, d |-> <<>>,
     p0 |-> <<>>, q0 |-> NOne, p1 |-> NOne, q1 |-> <<>>,
     num |-> <<>>, den |-> <<>>, text |-> <<>>]

Return(r, v, sign, n, d_) ==
    [r EXCEPT !.at = "returned", !.sign = sign, !.num = n, !.den = d_,
              !.text = Rendered(v, sign, n, d_)]

\* return std::to_string(real_to_int)
ReturnInteger(r, real) ==
    [r EXCEPT !.at = "returned", !.sign = real.s, !.num = real.n,
              !.den = NOne,
              !.text = SignChars(real.s) \o to_string_int(real.n)]

\* n /= g; d /= g; if(d <= max_denominator) return ...; otherwise the loop
Reduced(r, v, sign, n, d_, g) ==
    IF NCmp(NDiv(d_, g), r.max_denominator) <= 0
    THEN Return(r, v, sign, NDiv(n, g), NDiv(d_, g))
    ELSE [r EXCEPT !.at = "loop", !.sign = sign,
                   !.n = NDiv(n, g), !.d = NDiv(d_, g)]

\* x is below 2^63, the values of int long (and of long long)
Fits64(x) == NCmp(x, <<5808, 5477, 368, 3372, 922>>) < 0

\* n = real * d, truncated by the conversion; the conversion of a double
\* that int long cannot hold is undefined, and nothing is modelled of the
\* call after it
Scaled(r, v, real, n) ==
    IF ~Fits64(n) THEN [r EXCEPT !.at = "undefined", !.sign = real.s]
    ELSE Reduced(r, v, real.s, n, Scale(v), my_gcd(n, Scale(v)))

\* the function up to the loop
Enter(r, v, real) ==
    IF real.d = NOne THEN ReturnInteger(r, real)
    ELSE Scaled(r, v, real, NDiv(NMul(real.n, Scale(v)), real.d))

\* if(q2 > max_denominator) break, never taken
LoopBreaks_Never(q2, m) == FALSE

\* if(q2 > max_denominator) break, with twice the bound
LoopBreaks_Late(q2, m) == NCmp(q2, NAdd(m, m)) > 0

\* if(q2 > max_denominator) break
LoopBreaks(q2, m) == NCmp(q2, m) > 0

\* p1 = p0 + a * p1; p0 = p1_old (and the same for q): <<p0, p1>> after it
Convergent(x0, x1, a) == <<x1, NAdd(x0, NMul(a, x1))>>

\* one iteration, a = n / d given
Iterated(r, a) ==
    IF LoopBreaks(NAdd(r.q0, NMul(a, r.q1)), r.max_denominator)
    THEN [r EXCEPT !.at = "select"]
    ELSE [r EXCEPT !.p0 = Convergent(r.p0, r.p1, a)[1],
                   !.p1 = Convergent(r.p0, r.p1, a)[2],
                   !.q0 = Convergent(r.q0, r.q1, a)[1],
                   !.q1 = Convergent(r.q0, r.q1, a)[2],
                   !.d = NSub(r.n, NMul(a, r.d)),
                   !.n = r.d]

\* k = (max_denominator - q0) / q1, one more
SemiK_Next(m, q0, q1) == NAdd(NDiv(NSub(m, q0), q1), NOne)

\* k = (max_denominator - q0) / q1
SemiK(m, q0, q1) == NDiv(NSub(m, q0), q1)

\* |bound - real|
Distance(p_, q_, real) == DAbs(DSub(DMake(1, p_, q_), DAbs(real)))

\* the choice with < in the place of <=
Selected_Strict(r, v, real, pk, qk) ==
    IF DLess(Distance(r.p1, r.q1, real), Distance(pk, qk, real))
    THEN Return(r, v, r.sign, r.p1, r.q1)
    ELSE Return(r, v, r.sign, pk, qk)

\* the choice between bound2 = p1 / q1 and
\* bound1 = (p0 + k * p1) / (q0 + k * q1)
Selected(r, v, real, pk, qk) ==
    IF DLeq(Distance(r.p1, r.q1, real), Distance(pk, qk, real))
    THEN Return(r, v, r.sign, r.p1, r.q1)
    ELSE Return(r, v, r.sign, pk, qk)

Select(r, v, real, k) ==
    Selected(r, v, real, NAdd(r.p0, NMul(k, r.p1)), NAdd(r.q0, NMul(k, r.q1)))

\* the numbers and the bounds a caller passes
RationalReals ==
    {DDec(5, 1), DInt(3), DDec(333333, 6), DDec(10000009, 13), DDec(1, 16),
     DDec(75, 2), DDec(-75, 2), DDec(3, 1), DDec(-6, 1), DDec(25, 1),
     DInt(0), DInt(-2), DDec(22538655, 2), DDec(-185079375, 3),
     DDec(92235, 1), DDec(922325, 2)}
        \cup {DFrac(k, 16) : k \in (-MaxDenominator)..(16 * MaxDenominator)}
RationalBounds ==
    {NFromInt(k) : k \in 1..MaxDenominator}
        \cup {NFromInt(1000), NFromInt(1000000), NPow10(15)}

InitRational ==
    /\ pc = "number"
    /\ variant = ""
    /\ value \in RationalReals
    /\ rat \in {Entered(m) : m \in RationalBounds}
    /\ xcoords = <<>> /\ ycoords = <<>>
    /\ outcome = NoOutcome
    /\ p = <<>> /\ q = <<>> /\ d = Zero /\ raw = <<>> /\ steps = 0

\* the call of rationalise(value, max_denominator) up to the loop
CallRationalise ==
    /\ pc = "number"
    /\ \E v \in {"rationalise", "rationalise_cpp"} :
          /\ variant' = v
          /\ rat' = Enter(rat, v, value)
    /\ pc' = IF rat'.at \in {"returned", "undefined"} THEN "done"
             ELSE "rationalise"
    /\ UNCHANGED <<xcoords, ycoords, outcome, objects, value>>

\* one iteration of while(true); a division by 0 ends the program
LoopRationalise ==
    /\ pc = "rationalise" /\ rat.at = "loop"
    /\ IF rat.d = <<>>
       THEN rat' = [rat EXCEPT !.at = "SIGFPE"] /\ pc' = "done"
       ELSE rat' = Iterated(rat, NDiv(rat.n, rat.d)) /\ pc' = pc
    /\ steps' = steps + 1
    /\ UNCHANGED <<variant, xcoords, ycoords, outcome, p, q, d, raw, value>>

\* after the loop: k, the two bounds and the return
SelectRationalise ==
    /\ pc = "rationalise" /\ rat.at = "select"
    /\ pc' = "done"
    /\ IF rat.q1 = <<>>
       THEN rat' = [rat EXCEPT !.at = "SIGFPE"]
       ELSE rat' = Select(rat, variant, value,
                          SemiK(rat.max_denominator, rat.q0, rat.q1))
    /\ UNCHANGED <<variant, xcoords, ycoords, outcome, objects, value>>

NextRational == CallRationalise \/ LoopRationalise \/ SelectRationalise

SpecRational == InitRational /\ [][NextRational]_vars

\* rationalise is sequential code of one thread: a call that has not
\* returned executes its next statement. Every step of NextRational moves
\* pc or counts an iteration in steps, and a call has a next statement
\* exactly while pc # "done", so the fairness of NextRational is stated on
\* that change
SpecRationalFair ==
    /\ SpecRational
    /\ WF_<<pc, steps>>(/\ pc # "done"
                        /\ pc' \in {"rationalise", "done"}
                        /\ steps' \in {steps, steps + 1})

\* the denominators a returned fraction is compared with: the small ones
\* and the two largest the bound m allows
CandidateDenominators(m) ==
    {c \in {NFromInt(k) : k \in 1..MaxDenominator} : NCmp(c, m) <= 0}
        \cup {m}
        \cup (IF m = NOne THEN {} ELSE {NSub(m, NOne)})

\* the largest numerator c with c / q_ <= |real|
FloorNumerator(real, q_) == NDiv(NMul(real.n, q_), real.d)

\* C14: the fraction returned is at least as close to the number as each
\* fraction with a denominator in 1..m (here: with a candidate denominator
\* and the numerator just below or just above the number)
C14_BestApproximation ==
    rat.at = "returned"
        => \A c \in CandidateDenominators(rat.max_denominator) :
              /\ DLeq(Distance(rat.num, rat.den, value),
                      Distance(FloorNumerator(value, c), c, value))
              /\ DLeq(Distance(rat.num, rat.den, value),
                      Distance(NAdd(FloorNumerator(value, c), NOne), c, value))

\* C15: the denominator of the fraction returned is at least 1 and at
\* most the bound, on each of the paths that return
C15_DenominatorBound ==
    rat.at = "returned"
        => (/\ NCmp(rat.den, NOne) >= 0
            /\ NCmp(rat.den, rat.max_denominator) <= 0)

\* the loop ran and the semiconvergent (p0 + k * p1) / (q0 + k * q1), not
\* the last convergent, was returned with a denominator above 1
C15_Witness ==
    /\ rat.at = "returned" /\ steps > 1
    /\ rat.den # rat.q1 /\ rat.den # NOne

\* C16: the numerator and the denominator returned are coprime, and
\* |p1 * q0 - p0 * q1| = 1 before the loop and after each of its iterations
C16_Reduced ==
    /\ rat.at = "returned" => NGcd(rat.num, rat.den) = NOne
    /\ rat.at \in {"loop", "select", "returned"}
          => \/ NMul(rat.p1, rat.q0) = NAdd(NMul(rat.p0, rat.q1), NOne)
             \/ NMul(rat.p0, rat.q1) = NAdd(NMul(rat.p1, rat.q0), NOne)

\* a fraction that the gcd had to reduce was returned early, and a
\* semiconvergent was returned after the loop
C16_Witness ==
    /\ rat.at = "returned" /\ rat.den # NOne
    /\ \/ steps = 0 /\ rat.den # Scale(variant)
       \/ steps > 1 /\ rat.den # rat.q1

\* C18: rationalise never divides by zero: d is not 0 when a = n / d is
\* computed, and q1 and q0 + k * q1 are not 0 when k and the two bounds are
\* computed
C18_NoDivisionByZero ==
    /\ rat.at # "SIGFPE"
    /\ rat.at = "loop" => rat.d # <<>>
    /\ rat.at = "select"
          => /\ rat.d # <<>>
             /\ rat.q1 # <<>>
             /\ NAdd(rat.q0, NMul(SemiK(rat.max_denominator, rat.q0, rat.q1),
                                  rat.q1)) # <<>>

\* the loop has broken at the iteration whose remainder n - a * d would
\* have been 0
C18_Witness ==
    /\ rat.at = "select" /\ steps > 2
    /\ NMod(rat.n, rat.d) = <<>>

\* C17: with the bound 1 the fraction returned is the integer nearest to
\* the number: its denominator is 1, it is within 1/2 of the number, and
\* the string has no slash
C17_BoundOne ==
    (rat.at # "entry" /\ rat.max_denominator = NOne)
        => /\ rat.at # "SIGFPE"
           /\ rat.at = "returned"
                 => /\ rat.den = NOne
                    /\ DLeq(Distance(rat.num, rat.den, value), DFrac(1, 2))
                    /\ \A i \in 1..Len(rat.text) : rat.text[i] # "/"

\* C19: a fraction with denominator 1 is returned as the bare integer, any
\* other as numerator/denominator
C19_Rendering ==
    rat.at = "returned"
        => rat.text = IF rat.den = NOne
                      THEN SignChars(rat.sign) \o to_string_int(rat.num)
                      ELSE SignChars(rat.sign) \o to_string_int(rat.num)
                               \o <<"/">> \o to_string_int(rat.den)

\* the sum of p[k] * q[n - k] over the k <= m with both indices in range
\* (0-based)
RECURSIVE ConvolutionSum(_, _, _, _)
ConvolutionSum(p_, q_, n, m) ==
    IF m < 0 THEN Zero
    ELSE IF m < Len(p_) /\ n - m >= 0 /\ n - m < Len(q_)
         THEN DAdd(ConvolutionSum(p_, q_, n, m - 1),
                   DMul(p_[m + 1], q_[n - m + 1]))
         ELSE ConvolutionSum(p_, q_, n, m - 1)

\* C21: for nonzero p and q the product before canonicalization has length
\* len(p) + len(q) - 1 and its element n is the sum of p[k] * q[n - k] over
\* the k with both indices in range
C21_Convolution ==
    (/\ pc = "done"
     /\ variant \in {"operator*", "operator*_cpp"}
     /\ p # <<>> /\ q # <<>>)
        => /\ Len(raw) = Len(p) + Len(q) - 1
           /\ \A n \in 1..Len(raw) :
                 raw[n] = ConvolutionSum(p, q, n - 1, n - 1)

\* two polynomials of two coefficients were multiplied by the operator of
\* Polynomial.cpp and the middle element is a sum of two nonzero products
C21_Witness ==
    /\ pc = "done" /\ variant = "operator*_cpp"
    /\ Len(p) = 2 /\ Len(q) = 2 /\ Len(raw) = 3
    /\ p[1] # Zero /\ q[1] # Zero /\ raw[2] # Zero

\* coefficient i of c, 0 beyond its end
Padded(c, i) == IF i <= Len(c) THEN c[i] ELSE Zero

\* C22: before canonicalization p + q and p - q have length
\* max(len(p), len(q)) and coefficient i is p[i] + q[i], respectively
\* p[i] - q[i], with the shorter operand padded by zeros; the result is the
\* canonical form of that vector
C22_Coefficientwise ==
    /\ (pc = "done" /\ variant \in {"operator+", "operator+_cpp"})
          => /\ Len(raw) = Max(Len(p), Len(q))
             /\ \A i \in 1..Len(raw) :
                   raw[i] = DAdd(Padded(p, i), Padded(q, i))
             /\ outcome.poly = Canonical(raw)
    /\ (pc = "done" /\ variant \in {"operator-", "operator-_cpp"})
          => /\ Len(raw) = Max(Len(p), Len(q))
             /\ \A i \in 1..Len(raw) :
                   raw[i] = DSub(Padded(p, i), Padded(q, i))
             /\ outcome.poly = Canonical(raw)

\* q is longer than p and its tail was appended negated by operator-
C22_Witness ==
    /\ pc = "done" /\ variant \in {"operator-", "operator-_cpp"}
    /\ p # <<>> /\ Len(q) > Len(p)
    /\ raw[Len(raw)] = DNeg(q[Len(q)])

\* C23: p + f and f + p add f to the coefficient at index 0 and leave the
\* others as they are; for the empty p the result is [f], or the empty
\* polynomial when |f| <= 1e-10
C23_PlusScalar ==
    (pc = "done" /\ variant \in {"operator+f", "f+operator"})
        => /\ outcome.returned /\ outcome.poly = Canonical(raw)
           /\ p # <<>>
                 => /\ Len(raw) = Len(p)
                    /\ raw[1] = DAdd(p[1], d)
                    /\ \A i \in 2..Len(p) : raw[i] = p[i]
           /\ p = <<>>
                 => outcome.poly = IF DLeq(DAbs(d), Tolerance) THEN <<>>
                                   ELSE <<d>>

\* a scalar above the tolerance was added to the empty polynomial
C23_Witness ==
    /\ pc = "done" /\ variant = "f+operator"
    /\ p = <<>> /\ outcome.poly = <<d>> /\ d # Zero

(***************************************************************************)
(* The scalar divisors of the basis polynomials.                           *)
(***************************************************************************)
\* the divisors -x[k] + x[j], k # j, of the basis loops over the points
\* the call used
BasisDivisors ==
    {DAdd(DNeg(xcoords[k]), xcoords[j]) :
        <<j, k>> \in {jk \in (1..NumPoints) \X (1..NumPoints) :
                          jk[1] # jk[2]}}

\* C24: an interpolation that passed the pre-checks (at least two points,
\* pairwise distinct abscissas) divides by nonzero scalars only: every
\* -x[k] + x[j], k # j, is nonzero and every coefficient returned is
\* finite; a call that went through the checks of interpolate or of the
\* constructor and returned had passed them
C24_NonzeroDivisors ==
    /\ (pc = "done" /\ outcome.returned /\ NumPoints >= 2 /\ DistinctPoints)
          => /\ Zero \notin BasisDivisors
             /\ \A i \in DOMAIN outcome.poly : IsFinite(outcome.poly[i])
    /\ (pc = "done" /\ outcome.returned
          /\ variant \in {"interpolate", "Polynomial"})
          => /\ NumPoints >= 2
             /\ Zero \notin BasisDivisors
             /\ \A i \in DOMAIN outcome.poly : IsFinite(outcome.poly[i])

\* interpolate returned for the five points at 1, 2, 3, 4, 5 of README.md:
\* the twenty divisors are the eight differences -4, ..., -1, 1, ..., 4
C24_Witness ==
    /\ pc = "done" /\ variant = "interpolate" /\ outcome.returned
    /\ xcoords = ReadmeX5 /\ NumPoints = 5
    /\ BasisDivisors = {DInt(i) : i \in {-4, -3, -2, -1, 1, 2, 3, 4}}

(***************************************************************************)
(* The choice after the loop of rationalise.                               *)
(***************************************************************************)
\* rationalise returned from the choice after its loop (the returns before
\* the loop leave q1 = 0)
ChoseCandidate == rat.at = "returned" /\ rat.q1 # <<>>

\* the semiconvergent (p0 + k * p1) / (q0 + k * q1)
SemiCandidate(r, k) ==
    <<NAdd(r.p0, NMul(k, r.p1)), NAdd(r.q0, NMul(k, r.q1))>>

\* e1 <= ek and ek <= e1
Tie(e1, ek) == DLeq(e1, ek) /\ DLeq(ek, e1)

\* the fraction num / den is one of two candidates, e is its distance from the
\* number, e1 and ek the distances of the candidates: e is the smaller,
\* and on a tie den is the smaller denominator
BetterOf(num, den, e, c1, ck, e1, ek) ==
    /\ <<num, den>> \in {c1, ck}
    /\ DLeq(e, e1) /\ DLeq(e, ek)
    /\ Tie(e1, ek) => (NCmp(den, c1[2]) <= 0 /\ NCmp(den, ck[2]) <= 0)

BetterOfCandidates(r, real, c1, ck) ==
    BetterOf(r.num, r.den, Distance(r.num, r.den, real), c1, ck,
             Distance(c1[1], c1[2], real), Distance(ck[1], ck[2], real))

\* C25: of the last convergent p1 / q1 and the semiconvergent
\* (p0 + k * p1) / (q0 + k * q1), k = (max_denominator - q0) / q1, the one
\* nearer to the number is returned, and on a tie the one of the smaller
\* denominator
C25_CandidateSelection ==
    ChoseCandidate =>
        BetterOfCandidates(rat, value, <<rat.p1, rat.q1>>,
            SemiCandidate(rat, SemiK(rat.max_denominator, rat.q0, rat.q1)))

\* rationalise(0.25, 2): 0 / 1 and 1 / 2 are equally far from 0.25, and
\* 0 / 1 is returned
C25_Witness ==
    /\ ChoseCandidate
    /\ value = DFrac(4, 16) /\ rat.max_denominator = NFromInt(2)
    /\ rat.p1 = <<>> /\ rat.q1 = NOne
    /\ SemiCandidate(rat, NFromInt(2)) = <<NOne, NFromInt(2)>>
    /\ rat.num = <<>> /\ rat.den = NOne

(***************************************************************************)
(* The fraction of denominator D rationalise starts from.                  *)
(***************************************************************************)
\* |real| * D rounded to the nearest integer
NearestNumerator(real, D) ==
    NDiv(NAdd(NMul(NAdd(real.n, real.n), D), real.d), NAdd(real.d, real.d))

\* n / D in lowest terms, g = gcd(n, D)
LowestTerms(n, D, g) == <<NDiv(n, g), NDiv(D, g)>>

NearestFraction(n, D) == LowestTerms(n, D, NGcd(n, D))

\* when the denominator of f is at most m the call returned f
ReturnedDirectly(r, f) ==
    NCmp(f[2], r.max_denominator) <= 0 =>
        (r.at = "returned" /\ r.num = f[1] /\ r.den = f[2] /\ r.q1 = <<>>)

\* C26: for a number that is not an integer the first fraction is
\* round(|number| * D) / D in lowest terms, D = 10^12 or 10^15, and it is
\* returned without entering the loop when its denominator is at most
\* max_denominator (calls whose conversion is undefined apart)
C26_InitialFraction ==
    (pc = "done" /\ value.d # NOne /\ rat.at # "undefined") =>
        ReturnedDirectly(rat,
            NearestFraction(NearestNumerator(value, Scale(variant)),
                            Scale(variant)))

(***************************************************************************)
(* Termination of the loop of rationalise.                                 *)
(***************************************************************************)
\* C27: the while(true) loop of rationalise reaches its break: a call in
\* the loop gets to the choice after it; q1 never decreases and never
\* exceeds max_denominator
C27_LoopTerminates ==
    /\ [](NCmp(rat.q1, rat.max_denominator) <= 0)
    /\ [][NCmp(rat'.q1, rat.q1) >= 0]_vars
    /\ (rat.at = "loop") ~> (rat.at = "select")

\* rationalise(0.333333, 1000) left the loop in its third
\* iteration with q1 = 3
C27_Witness ==
    /\ rat.at = "select" /\ steps >= 3
    /\ value = DDec(333333, 6) /\ rat.max_denominator = NFromInt(1000)
    /\ NCmp(rat.q1, NOne) > 0 /\ NCmp(rat.q1, rat.max_denominator) <= 0

(***************************************************************************)
(* The sign of the string rationalise returns.                             *)
(***************************************************************************)
\* C28: for a number that is not an integer the string returned is the one
\* of its magnitude, preceded by "-" when the number is negative, so that
\* -x gives the negation of what x gives; a fraction of numerator 0 is
\* returned without a sign
C28_SignHandling ==
    (rat.at = "returned" /\ value.d # NOne) =>
        rat.text =
            (IF value.s < 0 /\ rat.num # <<>> THEN <<"-">> ELSE <<>>)
                \o Rendered(variant, 1, rat.num, rat.den)

(***************************************************************************)
(* The width of the integers of rationalise.                               *)
(***************************************************************************)
\* the coefficients the README displays: not an integer, of magnitude at
\* most 225386.55, with a bound of at most 10^6
Displayed ==
    /\ value.d # NOne
    /\ DLeq(DAbs(value), DDec(22538655, 2))
    /\ NCmp(rat.max_denominator, NFromInt(1000000)) <= 0

\* the products a * x and a * y fit
ProductsFit(a, x, y) == Fits64(NMul(a, x)) /\ Fits64(NMul(a, y))

\* C29: for a displayed coefficient the scaled numerator number * D and the
\* products a * q1, a * p1 of each iteration and k * p1, k * q1 of the
\* choice fit in a signed 64-bit integer
C29_NoOverflow ==
    (pc # "number" /\ Displayed) =>
        /\ rat.at # "undefined"
        /\ rat.at = "loop" /\ rat.d # <<>>
              => ProductsFit(NDiv(rat.n, rat.d), rat.q1, rat.p1)
        /\ rat.at = "select" /\ rat.q1 # <<>>
              => ProductsFit(SemiK(rat.max_denominator, rat.q0, rat.q1),
                             rat.p1, rat.q1)

(***************************************************************************)
(* The order of the points handed to interpolation.                        *)
(***************************************************************************)
\* s with the elements at i and j exchanged
Swapped(s, i, j) == [s EXCEPT ![i] = s[j], ![j] = s[i]]

\* the call was made on n >= 2 points with pairwise distinct abscissas and
\* returned a polynomial
AcceptedPoints ==
    /\ pc = "done" /\ outcome.returned
    /\ Len(xcoords) = NumPoints /\ Len(ycoords) = NumPoints
    /\ NumPoints >= 2 /\ DistinctPoints

\* C30: the routine returns the same coefficient sequence for every order
\* of the points: exchanging two points, which generates every
\* permutation, leaves the result unchanged
C30_OrderIndependence ==
    AcceptedPoints =>
        \A i, j \in 1..NumPoints :
            Routine(Swapped(xcoords, i, j), Swapped(ycoords, i, j)).poly
                = outcome.poly

====
